---- MODULE Spec2Model ----
(***************************************************************************)
(* Model of the data-driven-decaf request handler of the Cymbal Coffee     *)
(* backend (src/data-driven-decaf.go) and of the Bond verification client  *)
(* sendJson (bond.go, reproduced in src/README.md lines 62-123).           *)
(*                                                                         *)
(* Spec      : concurrent requests handled by dddHandler, one action per   *)
(*             blocking step (dispatch, configuration, dialer, connect,    *)
(*             query + row loop, verification POST + response).            *)
(* SpecRows  : the two row loops (DDDPostgresRows, the loop of             *)
(*             DDDMySQLConnect) run one row per step over bounded tables.  *)
(***************************************************************************)
EXTENDS Integers, Sequences, FiniteSets, TLC

VARIABLES env, table, req, result, dialer, pool, scan

vars == <<env, table, req, result, dialer, pool, scan>>

(***************************************************************************)
(* Bounds of the model.                                                    *)
(***************************************************************************)
NumRequests == 2
MaxRows == 53

(***************************************************************************)
(* Program constants.                                                      *)
(***************************************************************************)
SentinelPg == 50
SentinelMySQL == 51
StatusInternalServerError == 500
StatusOK == 200

Requests == 1..NumRequests

\* cfg.ProjectID, the process-wide default project (set at start-up).
CfgProjectID == "proj"

\* Errors (Go error values, by message).
NoErr == "nil"
ErrMissingConfig == "ensure required environment variables are set"
ErrClusterRequired == "expected db cluster to be set"
ErrParseConfig == "pgxpool.ParseConfig: invalid dsn"
ErrDialer == "NewDialer failed"
ErrConnect == "ConnectConfig failed"
ErrOpen == "sql.Open failed"
ErrQuery == "query failed"
ErrScan == "row scan failed"
ErrTransport == "client.Do failed"
ErrStatus == "expected 200 response"
ErrRead == "io.ReadAll failed"
ErrUnknownDB == "Unknown DB type"

(***************************************************************************)
(* Strings the code takes apart are sequences of one-character strings;    *)
(* "" is <<>>.                                                             *)
(***************************************************************************)
DigitVal(ch) ==
  CASE ch = "0" -> 0 [] ch = "1" -> 1 [] ch = "2" -> 2 [] ch = "3" -> 3
    [] ch = "4" -> 4 [] ch = "5" -> 5 [] ch = "6" -> 6 [] ch = "7" -> 7
    [] ch = "8" -> 8 [] ch = "9" -> 9

DigitChars == {"0", "1", "2", "3", "4", "5", "6", "7", "8", "9"}

RECURSIVE DecVal(_)
DecVal(s) ==
  IF s = <<>> THEN 0
  ELSE 10 * DecVal(SubSeq(s, 1, Len(s) - 1)) + DigitVal(s[Len(s)])

\* strconv.Atoi: optional sign, then one or more decimal digits, nothing else.
\* (The out-of-range error needs more than 18 digits; prices here are shorter.)
Atoi(s) ==
  LET neg == s # <<>> /\ s[1] = "-"
      digits == IF s # <<>> /\ s[1] \in {"+", "-"} THEN Tail(s) ELSE s
  IN  IF digits = <<>> \/ \E k \in 1..Len(digits) : digits[k] \notin DigitChars
      THEN [ok |-> FALSE, val |-> 0]
      ELSE [ok |-> TRUE, val |-> IF neg THEN 0 - DecVal(digits) ELSE DecVal(digits)]

\* The whole price, not split: what forgetting strings.Split would parse.
SplitFirstWhole(price) == price

\* strings.Split(price, ".")[0]: the text before the first ".".
SplitFirst(price) ==
  LET dots == {k \in 1..Len(price) : price[k] = "."}
  IN  IF dots = {} THEN price
      ELSE SubSeq(price, 1, (CHOOSE k \in dots : \A j \in dots : k <= j) - 1)

(***************************************************************************)
(* The seeded table.  A table is described by a record d: d.n rows, every  *)
(* row priced Prices[d.base] except row d.altAt (0: none), priced          *)
(* Prices[d.alt]; the id column of the k-th row is k - 1 + d.idBase.       *)
(* Each price carries the integer a reader expects from it (ok, int).      *)
(***************************************************************************)
Prices ==
  << [text |-> <<"4", ".", "5", "0">>, ok |-> TRUE, int |-> 4],
     [text |-> <<"1", "2">>, ok |-> TRUE, int |-> 12],
     [text |-> <<"-", "3", ".", "0", ".", "1">>, ok |-> TRUE, int |-> 0 - 3],
     [text |-> <<".", "5">>, ok |-> FALSE, int |-> 0],
     [text |-> <<"4", "x", ".", "5">>, ok |-> FALSE, int |-> 0],
     [text |-> <<>>, ok |-> FALSE, int |-> 0] >>

PriceOf(d, k) == IF k = d.altAt THEN Prices[d.alt] ELSE Prices[d.base]

RowAt(d, k) == [id |-> k - 1 + d.idBase, name |-> <<k>>, price |-> PriceOf(d, k).text]

\* Positions of the differently priced row tried in a table of n rows: none,
\* the first row, the rows around both sentinels, the last row.
AltPositions(n) ==
  {0, 1, SentinelPg, SentinelPg + 1, SentinelMySQL + 1, n} \cap (0..n)

\* Tables of SpecRows: any length; all rows parseable but one, or all rows
\* unparseable but one.
RowTables ==
  UNION { { [n |-> n, base |-> bp, alt |-> a, altAt |-> p, idBase |-> b] :
              bp \in {1, 5}, a \in 1..Len(Prices), p \in AltPositions(n),
              b \in {0, 1} } : n \in 0..MaxRows }

\* Tables of Spec: empty, full, and full with the first price unparseable.
HandlerTables ==
  { [n |-> n, base |-> 1, alt |-> 4, altAt |-> p, idBase |-> 1] :
      n \in {0, MaxRows}, p \in {0, 1} } \ { [n |-> 0, base |-> 1, alt |-> 4,
                                                altAt |-> 1, idBase |-> 1] }

(***************************************************************************)
(* DDDBondPayload and the row loops.                                       *)
(***************************************************************************)
ZeroPayload == [MagicCoffee |-> <<>>, Total |-> 0, Project |-> "", DB |-> ""]

\* Loop state: the loop variable i and the named result under construction.
ZeroLoop == [i |-> 0, MagicCoffee |-> <<>>, Total |-> 0]

\* One iteration of the loop of DDDPostgresRows.
PgRowStep(st, row) ==
  LET st1 == IF st.i = SentinelPg THEN [st EXCEPT !.MagicCoffee = row.name] ELSE st
      p == Atoi(SplitFirst(row.price))
  IN  IF ~p.ok THEN st1
      ELSE [st1 EXCEPT !.Total = @ + p.val, !.i = @ + 1]

\* One iteration of the loop of DDDMySQLConnect: Scan stores the first
\* column in i.
MySQLRowStep(st, row) ==
  LET st0 == [st EXCEPT !.i = row.id]
      st1 == IF st0.i = SentinelMySQL THEN [st0 EXCEPT !.MagicCoffee = row.name] ELSE st0
      p == Atoi(SplitFirst(row.price))
  IN  IF ~p.ok THEN st1
      ELSE [st1 EXCEPT !.Total = @ + p.val]

RowStep(path, st, row) ==
  IF path = "pg" THEN PgRowStep(st, row) ELSE MySQLRowStep(st, row)

\* The iterations for rows k..upto of table d, entered with loop state st.
\* (Binding the state after row k through a one-element set makes it a value
\* before the next iteration starts.)
RECURSIVE RowLoopFrom(_, _, _, _, _)
RowLoopFrom(path, d, k, upto, st) ==
  IF k > upto THEN st
  ELSE CHOOSE res \in { RowLoopFrom(path, d, k + 1, upto, s) :
                          s \in {RowStep(path, st, RowAt(d, k))} } : TRUE

\* The loop over rows 1..upto of each table of Spec, tabulated once.
LoopResults ==
  [path \in {"pg", "mysql"}, d \in HandlerTables, upto \in 0..MaxRows |->
     RowLoopFrom(path, d, 1, upto, ZeroLoop)]

\* The loop over rows 1..upto of table d.
RowLoop(path, d, upto) ==
  IF d \in HandlerTables /\ upto \in 0..MaxRows THEN LoopResults[path, d, upto]
  ELSE RowLoopFrom(path, d, 1, upto, ZeroLoop)

\* json.NewEncoder(w).Encode(result): every field is omitempty, so only the
\* non-zero fields are written.
Encode(p) ==
  (IF p.MagicCoffee # <<>> THEN {<<"magic_coffee", p.MagicCoffee>>} ELSE {})
    \cup (IF p.Total # 0 THEN {<<"total", p.Total>>} ELSE {})
    \cup (IF p.Project # "" THEN {<<"project", p.Project>>} ELSE {})
    \cup (IF p.DB # "" THEN {<<"db", p.DB>>} ELSE {})

(***************************************************************************)
(* Process-wide configuration: the environment, read at request time and   *)
(* never written.                                                          *)
(***************************************************************************)
DBTypes == {"ALLOY_DB", "CLOUD_SQL_POSTGRES", "CLOUD_SQL_MYSQL", "", "SPANNER"}

Envs ==
  [DB_TYPE : DBTypes, DB_USER : {"", "u"}, DB_PASS : {"", "p"}, DB_NAME : {"", "d"},
   DB_INSTANCE : {"", "i"}, DB_CLUSTER : {"", "c"}, DB_REGION : {"r"},
   DB_PROJECT : {""}]

ZeroInfo ==
  [User |-> "", Pass |-> "", DBName |-> "", DBRegion |-> "", DBCluster |-> "",
   DBInstance |-> "", ProjectID |-> ""]

\* dbConnectionInfo: the Configuration Resolver.
dbConnectionInfo ==
  IF env.DB_USER = "" \/ env.DB_PASS = "" \/ env.DB_INSTANCE = "" \/ env.DB_NAME = ""
  THEN [info |-> ZeroInfo, err |-> ErrMissingConfig]
  ELSE [info |-> [User |-> env.DB_USER, Pass |-> env.DB_PASS, DBName |-> env.DB_NAME,
                  DBRegion |-> env.DB_REGION, DBCluster |-> env.DB_CLUSTER,
                  DBInstance |-> env.DB_INSTANCE,
                  ProjectID |-> IF env.DB_PROJECT = "" THEN CfgProjectID
                                ELSE env.DB_PROJECT],
        err |-> NoErr]

\* DDDPostgresConnection: resolve the configuration, then parse the DSN
\* (parseOk: whether pgxpool.ParseConfig accepts it).  c is nil on any error.
DDDPostgresConnection(parseOk) ==
  LET ci == dbConnectionInfo
  IN  IF ci.err # NoErr THEN [c |-> "nil", err |-> ci.err]
      ELSE IF ~parseOk THEN [c |-> "nil", err |-> ErrParseConfig]
      ELSE [c |-> "cfg", err |-> NoErr]

\* A dispatch whose default case falls through to the MySQL builder.
BackendForDefaultMySQL(dbType) ==
  CASE dbType = "ALLOY_DB" -> "alloy"
    [] dbType = "CLOUD_SQL_POSTGRES" -> "pg"
    [] OTHER -> "mysql"

\* The switch of dddHandler: the Connection Builder a DB_TYPE selects.
BackendFor(dbType) ==
  CASE dbType = "ALLOY_DB" -> "alloy"
    [] dbType = "CLOUD_SQL_POSTGRES" -> "pg"
    [] dbType = "CLOUD_SQL_MYSQL" -> "mysql"
    [] OTHER -> "none"

\* A builder that never checks the cluster.
ClusterMissingUnchecked(info) == FALSE

\* The check of DDDAlloyConnect: info.DBCluster == "".
ClusterMissing(info) == info.DBCluster = ""

\* DDDPostgresRows / the loop of DDDMySQLConnect as the caller sees it: the
\* query fails, or row failAt (0: none) fails to scan and the partly built
\* named result is returned with the error, or every row is processed.
Aggregate(path, qok, failAt) ==
  IF ~qok THEN [st |-> ZeroLoop, err |-> ErrQuery]
  ELSE IF failAt >= 1 /\ failAt <= table.n
       THEN [st |-> RowLoop(path, table, failAt - 1), err |-> ErrScan]
       ELSE [st |-> RowLoop(path, table, table.n), err |-> NoErr]

PayloadOf(st) == [ZeroPayload EXCEPT !.MagicCoffee = st.MagicCoffee, !.Total = st.Total]

\* Rows at which the model lets a scan fail (0: no failure).
ScanFailures == {0, 1, table.n}

(***************************************************************************)
(* sendJson (bond.go).  A reply of the verification service: whether the   *)
(* transport delivered one, its status and body, and whether reading the   *)
(* body succeeds.  b is nil unless io.ReadAll ran.                         *)
(***************************************************************************)
VerifierReplies ==
  { [transportOk |-> FALSE, status |-> 0, body |-> <<>>, readOk |-> FALSE] }
    \cup [transportOk : {TRUE}, status : {300, 503}, body : {<<>>, <<"reply">>},
          readOk : {TRUE}]
    \cup [transportOk : {TRUE}, status : {200, 299}, body : {<<"reply">>},
          readOk : BOOLEAN]

NilBytes == [nil |-> TRUE, bytes |-> <<>>]

sendJson(reply) ==
  IF ~reply.transportOk THEN [b |-> NilBytes, err |-> ErrTransport]
  ELSE IF reply.status < 200 \/ reply.status > 299
       THEN [b |-> NilBytes, err |-> ErrStatus]
       ELSE IF ~reply.readOk THEN [b |-> [nil |-> FALSE, bytes |-> <<>>], err |-> ErrRead]
            ELSE [b |-> [nil |-> FALSE, bytes |-> reply.body], err |-> NoErr]

(***************************************************************************)
(* Requests.                                                               *)
(***************************************************************************)
\* Every request sharing one package-level result.
FrameShared(r) == 1

\* Where request r keeps `var result DDDBondPayload`: a local of its own
\* invocation of dddHandler.
Frame(r) == r

NoBody == [kind |-> "none", words |-> <<>>, fields |-> {}]

IdleRequest ==
  [pc |-> "idle", c |-> "nil", err |-> NoErr, failed |-> {}, status |-> 0,
   body |-> NoBody, builders |-> {}, dialers |-> 0, conns |-> 0, queries |-> 0,
   posts |-> 0, posted |-> {}, reply |-> {}, logBody |-> {}, trace |-> <<>>]

\* http.Error(w, prefix + err, 500) and return.
Respond500(q, prefix, e) ==
  [q EXCEPT !.pc = "done", !.err = e, !.failed = @ \cup {e},
            !.status = StatusInternalServerError,
            !.body = [kind |-> "text", words |-> prefix \o <<e>>, fields |-> {}],
            !.trace = Append(@, "error responded")]

HandlerPrefix == <<"Error:">>
VerifyPrefix == <<"Data-Driven", "Decaf", "Error:">>

Init ==
  /\ env \in Envs
  /\ table \in HandlerTables
  /\ req = [r \in Requests |-> IdleRequest]
  /\ result = [f \in Requests |-> ZeroPayload]
  /\ dialer = [r \in Requests |-> "none"]
  /\ pool = [r \in Requests |-> "none"]
  /\ scan = [path |-> "none", pos |-> 0, st |-> ZeroLoop, done |-> FALSE]

\* The router hands a GET to dddHandler, which declares result and err.
Receive(r) ==
  /\ req[r].pc = "idle"
  /\ req' = [req EXCEPT ![r] = [@ EXCEPT !.pc = "received", !.trace = <<"received">>]]
  /\ result' = [result EXCEPT ![Frame(r)] = ZeroPayload]
  /\ UNCHANGED <<env, table, dialer, pool, scan>>

\* switch os.Getenv("DB_TYPE")
Dispatch(r) ==
  /\ req[r].pc = "received"
  /\ LET b == BackendFor(env.DB_TYPE)
     IN  req' = [req EXCEPT ![r] =
           IF b = "none"
           THEN [Respond500(@, HandlerPrefix, ErrUnknownDB) EXCEPT
                   !.body.words = @ \o <<env.DB_TYPE>>]
           ELSE [@ EXCEPT !.pc = IF b = "mysql" THEN "mysql_open" ELSE b \o "_config",
                          !.builders = @ \cup {b},
                          !.trace = Append(@, "backend resolved")]]
  /\ UNCHANGED <<env, table, result, dialer, pool, scan>>

\* DDDAlloyConnect, lines 151-155.
AlloyConfig(r) ==
  /\ req[r].pc = "alloy_config"
  /\ \E parseOk \in BOOLEAN :
       LET pc == DDDPostgresConnection(parseOk)
       IN  req' = [req EXCEPT ![r] =
             IF pc.err # NoErr THEN Respond500(@, HandlerPrefix, pc.err)
             ELSE [@ EXCEPT !.pc = "alloy_dialer", !.c = pc.c]]
  /\ UNCHANGED <<env, table, result, dialer, pool, scan>>

\* DDDAlloyConnect, lines 157-162: alloydbconn.NewDialer, defer d.Close().
AlloyDialer(r) ==
  /\ req[r].pc = "alloy_dialer"
  /\ \E ok \in BOOLEAN :
       IF ok
       THEN /\ dialer' = [dialer EXCEPT ![r] = "open"]
            /\ req' = [req EXCEPT ![r] = [@ EXCEPT !.pc = "alloy_connect",
                                                   !.dialers = @ + 1]]
       ELSE /\ req' = [req EXCEPT ![r] = Respond500(@, HandlerPrefix, ErrDialer)]
            /\ UNCHANGED dialer
  /\ UNCHANGED <<env, table, result, pool, scan>>

\* DDDAlloyConnect, lines 164-185: resolve the configuration again, require
\* the cluster, connect the pool.  Every return runs the deferred d.Close().
AlloyConnect(r) ==
  /\ req[r].pc = "alloy_connect"
  /\ LET ci == dbConnectionInfo
     IN  IF ci.err # NoErr
         THEN /\ req' = [req EXCEPT ![r] = Respond500(@, HandlerPrefix, ci.err)]
              /\ dialer' = [dialer EXCEPT ![r] = "closed"]
              /\ UNCHANGED pool
         ELSE IF ClusterMissing(ci.info)
         THEN /\ req' = [req EXCEPT ![r] = Respond500(@, HandlerPrefix, ErrClusterRequired)]
              /\ dialer' = [dialer EXCEPT ![r] = "closed"]
              /\ UNCHANGED pool
         ELSE \E ok \in BOOLEAN :
                IF ok
                THEN /\ req' = [req EXCEPT ![r] = [@ EXCEPT !.pc = "alloy_rows",
                                                            !.conns = @ + 1]]
                     /\ pool' = [pool EXCEPT ![r] = "open"]
                     /\ UNCHANGED dialer
                ELSE /\ req' = [req EXCEPT ![r] =
                          Respond500([@ EXCEPT !.conns = @ + 1], HandlerPrefix, ErrConnect)]
                     /\ dialer' = [dialer EXCEPT ![r] = "closed"]
                     /\ UNCHANGED pool
  /\ UNCHANGED <<env, table, result, scan>>

\* The tail of a Postgres builder: DDDPostgresRows on the pool, the deferred
\* pool.Close() and d.Close(), and the handler's `result, err = ...`.
PostgresRows(r) ==
  \E qok \in BOOLEAN, failAt \in ScanFailures :
    LET a == Aggregate("pg", qok, failAt)
    IN  /\ result' = [result EXCEPT ![Frame(r)] = PayloadOf(a.st)]
        /\ pool' = [pool EXCEPT ![r] = "closed"]
        /\ dialer' = [dialer EXCEPT ![r] = "closed"]
        /\ req' = [req EXCEPT ![r] =
             IF a.err # NoErr
             THEN Respond500([@ EXCEPT !.queries = @ + 1], HandlerPrefix, a.err)
             ELSE [@ EXCEPT !.pc = "verify", !.queries = @ + 1,
                            !.trace = Append(@, "query complete")]]

\* DDDAlloyConnect, line 187.
AlloyRows(r) ==
  /\ req[r].pc = "alloy_rows"
  /\ PostgresRows(r)
  /\ UNCHANGED <<env, table, scan>>

\* DDDPostgresConnect, line 192: the error of DDDPostgresConnection is
\* overwritten by the next assignment to err and never looked at.
PgConfig(r) ==
  /\ req[r].pc = "pg_config"
  /\ \E parseOk \in BOOLEAN :
       LET pc == DDDPostgresConnection(parseOk)
       IN  req' = [req EXCEPT ![r] =
             [@ EXCEPT !.pc = "pg_dialer", !.c = pc.c,
                       !.failed = IF pc.err # NoErr THEN @ \cup {pc.err} ELSE @]]
  /\ UNCHANGED <<env, table, result, dialer, pool, scan>>

\* DDDPostgresConnect, lines 195-200: cloudsqlconn.NewDialer, defer d.Close().
PgDialer(r) ==
  /\ req[r].pc = "pg_dialer"
  /\ \E ok \in BOOLEAN :
       IF ok
       THEN /\ dialer' = [dialer EXCEPT ![r] = "open"]
            /\ req' = [req EXCEPT ![r] = [@ EXCEPT !.pc = "pg_connect",
                                                   !.dialers = @ + 1]]
       ELSE /\ req' = [req EXCEPT ![r] = Respond500(@, HandlerPrefix, ErrDialer)]
            /\ UNCHANGED dialer
  /\ UNCHANGED <<env, table, result, pool, scan>>

\* DDDPostgresConnect, lines 201-217.  With c nil, c.ConnConfig at line 207
\* dereferences a nil pointer: the goroutine panics, the deferred d.Close()
\* runs while it unwinds, and dddHandler writes nothing.
PgConnect(r) ==
  /\ req[r].pc = "pg_connect"
  /\ LET ci == dbConnectionInfo
     IN  IF ci.err # NoErr
         THEN /\ req' = [req EXCEPT ![r] = Respond500(@, HandlerPrefix, ci.err)]
              /\ dialer' = [dialer EXCEPT ![r] = "closed"]
              /\ UNCHANGED pool
         ELSE IF req[r].c = "nil"
         THEN /\ req' = [req EXCEPT ![r] = [@ EXCEPT !.pc = "panicked"]]
              /\ dialer' = [dialer EXCEPT ![r] = "closed"]
              /\ UNCHANGED pool
         ELSE \E ok \in BOOLEAN :
                IF ok
                THEN /\ req' = [req EXCEPT ![r] = [@ EXCEPT !.pc = "pg_rows",
                                                            !.conns = @ + 1]]
                     /\ pool' = [pool EXCEPT ![r] = "open"]
                     /\ UNCHANGED dialer
                ELSE /\ req' = [req EXCEPT ![r] =
                          Respond500([@ EXCEPT !.conns = @ + 1], HandlerPrefix, ErrConnect)]
                     /\ dialer' = [dialer EXCEPT ![r] = "closed"]
                     /\ UNCHANGED pool
  /\ UNCHANGED <<env, table, result, scan>>

\* DDDPostgresConnect, line 219.
PgRows(r) ==
  /\ req[r].pc = "pg_rows"
  /\ PostgresRows(r)
  /\ UNCHANGED <<env, table, scan>>

\* DDDMySQLConnect, lines 87-100: resolve the configuration, sql.Open (which
\* makes the handle and dials nothing).
MySQLOpen(r) ==
  /\ req[r].pc = "mysql_open"
  /\ LET ci == dbConnectionInfo
     IN  IF ci.err # NoErr
         THEN /\ req' = [req EXCEPT ![r] = Respond500(@, HandlerPrefix, ci.err)]
              /\ UNCHANGED pool
         ELSE \E ok \in BOOLEAN :
                IF ok
                THEN /\ req' = [req EXCEPT ![r] = [@ EXCEPT !.pc = "mysql_rows"]]
                     /\ pool' = [pool EXCEPT ![r] = "open"]
                ELSE /\ req' = [req EXCEPT ![r] = Respond500(@, HandlerPrefix, ErrOpen)]
                     /\ UNCHANGED pool
  /\ UNCHANGED <<env, table, result, dialer, scan>>

\* DDDMySQLConnect, lines 101-130: db.Query (the first use of the handle
\* dials), the row loop, the deferred rows.Close().  Nothing closes db.
MySQLRows(r) ==
  /\ req[r].pc = "mysql_rows"
  /\ \E qok \in BOOLEAN, failAt \in ScanFailures :
       LET a == Aggregate("mysql", qok, failAt)
       IN  /\ result' = [result EXCEPT ![Frame(r)] = PayloadOf(a.st)]
           /\ req' = [req EXCEPT ![r] =
                IF a.err # NoErr
                THEN Respond500([@ EXCEPT !.conns = @ + 1, !.queries = @ + 1],
                                HandlerPrefix, a.err)
                ELSE [@ EXCEPT !.pc = "verify", !.conns = @ + 1, !.queries = @ + 1,
                               !.trace = Append(@, "query complete")]]
  /\ UNCHANGED <<env, table, dialer, pool, scan>>

\* dddHandler, lines 293-313: attach project and backend kind, POST to the
\* verification service, answer.
Verify(r) ==
  /\ req[r].pc = "verify"
  /\ LET payload == [result[Frame(r)] EXCEPT !.Project = CfgProjectID,
                                              !.DB = env.DB_TYPE]
     IN  /\ result' = [result EXCEPT ![Frame(r)] = payload]
         /\ \E reply \in VerifierReplies :
              LET sj == sendJson(reply)
                  q == [req[r] EXCEPT !.posts = @ + 1, !.posted = {payload},
                                      !.reply = {reply}]
              IN  req' = [req EXCEPT ![r] =
                    IF sj.err # NoErr
                    THEN Respond500(
                           [q EXCEPT !.logBody = IF sj.b.nil THEN @ ELSE {sj.b.bytes}],
                           VerifyPrefix, sj.err)
                    ELSE [q EXCEPT !.pc = "done", !.status = StatusOK,
                                   !.body = [kind |-> "json", words |-> <<>>,
                                             fields |-> Encode(payload)],
                                   !.trace = @ \o <<"verified", "responded">>]]
  /\ UNCHANGED <<env, table, dialer, pool, scan>>

Next ==
  \E r \in Requests :
    \/ Receive(r)
    \/ Dispatch(r)
    \/ AlloyConfig(r)
    \/ AlloyDialer(r)
    \/ AlloyConnect(r)
    \/ AlloyRows(r)
    \/ PgConfig(r)
    \/ PgDialer(r)
    \/ PgConnect(r)
    \/ PgRows(r)
    \/ MySQLOpen(r)
    \/ MySQLRows(r)
    \/ Verify(r)

Spec == Init /\ [][Next]_vars

(***************************************************************************)
(* SpecRows: the row loops, one row per step.                              *)
(***************************************************************************)
InitRows ==
  /\ table \in RowTables
  /\ \E p \in {"pg", "mysql"} :
       /\ p = "pg" => table.idBase = 1
       /\ scan = [path |-> p, pos |-> 0, st |-> ZeroLoop, done |-> FALSE]
  /\ env \in {e \in Envs : e.DB_TYPE = "" /\ e.DB_USER = "" /\ e.DB_PASS = ""
                           /\ e.DB_NAME = "" /\ e.DB_INSTANCE = "" /\ e.DB_CLUSTER = ""}
  /\ req = [r \in Requests |-> IdleRequest]
  /\ result = [f \in Requests |-> ZeroPayload]
  /\ dialer = [r \in Requests |-> "none"]
  /\ pool = [r \in Requests |-> "none"]

\* rows.Next() is true: one iteration of DDDPostgresRows.
ScanPgRow ==
  /\ scan.path = "pg" /\ ~scan.done /\ scan.pos < table.n
  /\ scan' = [scan EXCEPT !.pos = @ + 1,
                          !.st = PgRowStep(scan.st, RowAt(table, scan.pos + 1))]
  /\ UNCHANGED <<env, table, req, result, dialer, pool>>

\* rows.Next() is true: one iteration of the loop of DDDMySQLConnect.
ScanMySQLRow ==
  /\ scan.path = "mysql" /\ ~scan.done /\ scan.pos < table.n
  /\ scan' = [scan EXCEPT !.pos = @ + 1,
                          !.st = MySQLRowStep(scan.st, RowAt(table, scan.pos + 1))]
  /\ UNCHANGED <<env, table, req, result, dialer, pool>>

\* rows.Next() is false: return result, nil.
ScanReturn ==
  /\ scan.path \in {"pg", "mysql"} /\ ~scan.done /\ scan.pos = table.n
  /\ scan' = [scan EXCEPT !.done = TRUE]
  /\ UNCHANGED <<env, table, req, result, dialer, pool>>

NextRows == ScanPgRow \/ ScanMySQLRow \/ ScanReturn

SpecRows == InitRows /\ [][NextRows]_vars

(***************************************************************************)
(* Properties.                                                             *)
(***************************************************************************)
Finished(r) == req[r].pc \in {"done", "panicked"}

HasErrorWord(b) == b.kind = "text" /\ \E k \in 1..Len(b.words) : b.words[k] = "Error:"

RequiredMissing ==
  env.DB_USER = "" \/ env.DB_PASS = "" \/ env.DB_NAME = "" \/ env.DB_INSTANCE = ""

KnownTypes == {"ALLOY_DB", "CLOUD_SQL_POSTGRES", "CLOUD_SQL_MYSQL"}

\* C1: a request in which any step failed ends error-responded: status 500,
\* a plain-text body containing "Error:", no serialized result, and no step
\* run twice.
C1_FailureAnswers500 ==
  \A r \in Requests :
    (Finished(r) /\ req[r].failed # {}) =>
      /\ req[r].status = StatusInternalServerError
      /\ HasErrorWord(req[r].body)
      /\ req[r].body.fields = {}
      /\ req[r].dialers <= 1 /\ req[r].conns <= 1
      /\ req[r].queries <= 1 /\ req[r].posts <= 1

StateOrder ==
  <<"received", "backend resolved", "query complete", "verified", "responded">>

IsPrefix(s, t) == Len(s) <= Len(t) /\ s = SubSeq(t, 1, Len(s))

\* The states passed so far are in the fixed order, possibly cut short by the
\* error response.
InOrder(tr) ==
  \/ IsPrefix(tr, StateOrder)
  \/ /\ tr # <<>>
     /\ tr[Len(tr)] = "error responded"
     /\ IsPrefix(SubSeq(tr, 1, Len(tr) - 1), StateOrder)
     /\ Len(tr) <= Len(StateOrder)

\* The ordering part of C2: the fixed order, the success response only after
\* resolution, aggregation and a 2xx verification, one POST at most and only
\* after aggregation.
HandlerOrder ==
  \A r \in Requests :
    /\ InOrder(req[r].trace)
    /\ req[r].posts <= 1
    /\ req[r].posts = 1 =>
         /\ Len(req[r].trace) >= 3
         /\ req[r].trace[3] = "query complete"
         /\ req[r].queries = 1
    /\ req[r].status = StatusOK =>
         /\ req[r].trace = StateOrder
         /\ req[r].posts = 1
         /\ \A v \in req[r].reply : v.transportOk /\ v.status >= 200 /\ v.status <= 299
         /\ \A p \in req[r].posted :
              req[r].body = [kind |-> "json", words |-> <<>>, fields |-> Encode(p)]

\* C2: every request passes the states in the fixed order and ends in exactly
\* one terminal state, responded or error responded; the success response
\* comes only after resolution, aggregation and a 2xx verification, and the
\* verification POST is issued at most once and only after aggregation.
C2_OrderedToOneTerminal ==
  /\ HandlerOrder
  /\ \A r \in Requests :
       Finished(r) =>
         /\ req[r].trace # <<>>
         /\ req[r].trace[Len(req[r].trace)] \in {"responded", "error responded"}
         /\ req[r].status \in {StatusOK, StatusInternalServerError}

\* C3: with an unrecognized DB_TYPE the handler answers 500 and no builder,
\* dialer, connection attempt or verification POST happens; with a recognized
\* one exactly the matching builder runs.
C3_UnknownBackendRunsNothing ==
  \A r \in Requests :
    LET q == req[r]
        started == q.pc \notin {"idle", "received"}
    IN  /\ env.DB_TYPE \notin KnownTypes =>
             /\ q.builders = {} /\ q.dialers = 0 /\ q.conns = 0
             /\ q.queries = 0 /\ q.posts = 0
             /\ dialer[r] = "none" /\ pool[r] = "none"
             /\ started => (q.pc = "done" /\ q.status = StatusInternalServerError
                            /\ HasErrorWord(q.body))
        /\ env.DB_TYPE = "ALLOY_DB" => q.builders = IF started THEN {"alloy"} ELSE {}
        /\ env.DB_TYPE = "CLOUD_SQL_POSTGRES" => q.builders = IF started THEN {"pg"} ELSE {}
        /\ env.DB_TYPE = "CLOUD_SQL_MYSQL" => q.builders = IF started THEN {"mysql"} ELSE {}

C3_Witness ==
  \E r \in Requests :
    env.DB_TYPE = "SPANNER" /\ req[r].pc = "done"
      /\ req[r].status = StatusInternalServerError

ClusteredWithoutCluster ==
  env.DB_TYPE = "ALLOY_DB" /\ ~RequiredMissing /\ env.DB_CLUSTER = ""

\* C4 as stated: with a valid ConnectionInfo and no cluster, the clustered
\* builder fails with ClusterRequired whatever the other steps do, and opens
\* no connection.
C4_AlwaysClusterRequired ==
  \A r \in Requests :
    ClusteredWithoutCluster =>
      /\ req[r].conns = 0 /\ pool[r] = "none"
      /\ Finished(r) => req[r].err = ErrClusterRequired

\* C4 amended: with a valid ConnectionInfo and no cluster, the clustered
\* builder always fails and opens no connection; the error is ClusterRequired
\* whenever configuration parsing and dialer creation succeeded, and is the
\* error of the one of those two steps that failed otherwise.
C4_ClusterRequiredAfterDialer ==
  \A r \in Requests :
    ClusteredWithoutCluster =>
      /\ req[r].conns = 0 /\ pool[r] = "none" /\ req[r].queries = 0
      /\ req[r].pc \notin {"alloy_rows", "verify", "panicked"}
      /\ Finished(r) =>
           /\ req[r].status = StatusInternalServerError
           /\ req[r].err \in {ErrParseConfig, ErrDialer, ErrClusterRequired}
           /\ req[r].dialers = 1 <=> req[r].err = ErrClusterRequired
           /\ req[r].err = ErrClusterRequired => dialer[r] = "closed"

C4_Witness ==
  \E r \in Requests :
    ClusteredWithoutCluster /\ Finished(r) /\ req[r].err = ErrClusterRequired
      /\ req[r].dialers = 1

\* The index the loop compares with its sentinel at the k-th row: the
\* iteration count from 0 (Postgres), the scanned index column (MySQL).
RowIndex(path, k) == IF path = "pg" THEN k - 1 ELSE RowAt(table, k).id

SentinelOf(path) == IF path = "pg" THEN SentinelPg ELSE SentinelMySQL

\* C5: when the rows include one at the sentinel index, the sentinel returned
\* is the name of exactly that row, whatever the prices and however many rows
\* follow.
C5_SentinelIsRowAtIndex ==
  scan.done =>
    \A k \in 1..table.n :
      RowIndex(scan.path, k) = SentinelOf(scan.path) =>
        scan.st.MagicCoffee = RowAt(table, k).name

\* The sum of the expected integers of the parseable prices of rows k..upto.
RECURSIVE SumParsed(_, _, _)
SumParsed(d, k, upto) ==
  IF k > upto THEN 0
  ELSE IF k = upto THEN (IF PriceOf(d, k).ok THEN PriceOf(d, k).int ELSE 0)
  ELSE LET mid == (k + upto) \div 2
       IN  SumParsed(d, k, mid) + SumParsed(d, mid + 1, upto)

\* C6: after any number of rows the total is the sum of the integers before
\* the first decimal point of the prices that parse; an unparseable price is
\* skipped and the rows after it still count; the loop ends only after the
\* last row; zero rows give total 0 and an empty sentinel.
C6_TotalIsSumOfParsed ==
  scan.path \in {"pg", "mysql"} =>
    /\ scan.st.Total = SumParsed(table, 1, scan.pos)
    /\ scan.done => scan.pos = table.n
    /\ (scan.done /\ table.n = 0) => scan.st = ZeroLoop

C6_Witness ==
  /\ scan.done /\ table.n >= 3
  /\ table.altAt \in 2..(table.n - 1)
  /\ Prices[table.base].ok /\ ~Prices[table.alt].ok
  /\ scan.st.Total = (table.n - 1) * Prices[table.base].int

\* C7: every pool, connection and dialer a request opened is closed once the
\* request is over, on every exit path of every builder.
C7_HandlesClosed ==
  \A r \in Requests :
    Finished(r) => (dialer[r] # "open" /\ pool[r] # "open")

\* C8: with a recognized backend and a required variable empty, the request
\* fails with the missing-configuration error in its 500 response, and no
\* dialer is created and no connection or query attempted.
C8_MissingConfigFailsFast ==
  \A r \in Requests :
    (env.DB_TYPE \in KnownTypes /\ RequiredMissing) =>
      /\ req[r].dialers = 0 /\ dialer[r] = "none"
      /\ req[r].conns = 0 /\ pool[r] = "none" /\ req[r].queries = 0
      /\ Finished(r) =>
           /\ req[r].status = StatusInternalServerError
           /\ req[r].body.kind = "text"
           /\ req[r].body.words = HandlerPrefix \o <<ErrMissingConfig>>

\* What a request running alone computes from the configuration and the table.
SoloPayload ==
  LET path == IF env.DB_TYPE = "CLOUD_SQL_MYSQL" THEN "mysql" ELSE "pg"
  IN  [PayloadOf(RowLoop(path, table, table.n)) EXCEPT !.Project = CfgProjectID,
                                                        !.DB = env.DB_TYPE]

\* C9: whatever the interleaving, the payload a request posts and the body it
\* answers with are those of a request running alone on the same
\* configuration and rows.
C9_RequestsIsolated ==
  \A r \in Requests :
    /\ \A p \in req[r].posted : p = SoloPayload
    /\ req[r].status = StatusOK =>
         req[r].body = [kind |-> "json", words |-> <<>>, fields |-> Encode(SoloPayload)]

C9_Witness ==
  \E r1, r2 \in Requests :
    /\ r1 # r2
    /\ req[r1].status = StatusOK /\ table.n > 0
    /\ req[r2].err = ErrScan

\* C10: when the verification fails although the service returned a response
\* body, the handler logs that body before answering 500.
C10_FailureBodyLogged ==
  \A r \in Requests :
    \A v \in req[r].reply :
      (Finished(r) /\ req[r].err \in {ErrStatus, ErrRead, ErrTransport}
         /\ v.transportOk /\ v.readOk /\ v.body # <<>>) =>
        req[r].logBody = {v.body}

====
